---------------------------- MODULE Spec2Model ----------------------------
(***************************************************************************)
(* A model of the 2D physics core of contra-hd-game (src/PhysicsEngine.js, *)
(* with Vector2 and the event bus of src/unnamed/part_001).                *)
(*                                                                         *)
(* JavaScript numbers are modelled as exact rationals <<n, d>> in lowest   *)
(* terms with d > 0.  Math.sqrt is exact on the squares of rationals; the  *)
(* inputs of the model are chosen so that every square root it takes is of *)
(* such a number.  Math.pow(b, dt) is taken for whole dt only.             *)
(***************************************************************************)
EXTENDS Integers, Sequences, FiniteSets, TLC

(***************************************************************************)
(* Numbers                                                                 *)
(***************************************************************************)
Abs(n) == IF n < 0 THEN -n ELSE n

RECURSIVE Gcd(_, _)
Gcd(a, b) == IF b = 0 THEN a ELSE Gcd(b, a % b)

\* the rational n/d in lowest terms, d > 0
Q(n, d) ==
    LET g == Gcd(Abs(n), Abs(d))
        s == IF d < 0 THEN -1 ELSE 1
    IN  <<(s * n) \div g, (s * d) \div g>>

N(i) == <<i, 1>>
Zero == N(0)
One == N(1)

\* sums, products and comparisons cancel common factors before they multiply
Plus(a, b) ==
    LET g == Gcd(a[2], b[2])
    IN  Q(a[1] * (b[2] \div g) + b[1] * (a[2] \div g), (a[2] \div g) * b[2])
Times(a, b) ==
    LET g1 == Gcd(Abs(a[1]), b[2])
        g2 == Gcd(Abs(b[1]), a[2])
    IN  <<(a[1] \div g1) * (b[1] \div g2), (a[2] \div g2) * (b[2] \div g1)>>
Minus(a, b) == Plus(a, <<-b[1], b[2]>>)
\* a / b for b # 0 (every division of the engine is guarded or has a nonzero divisor)
Over(a, b) == Times(a, IF b[1] < 0 THEN <<-b[2], -b[1]>> ELSE <<b[2], b[1]>>)
Neg(a) == <<-a[1], a[2]>>
Less(a, b) ==
    LET g == Gcd(a[2], b[2])
    IN  a[1] * (b[2] \div g) < b[1] * (a[2] \div g)
MathMin(a, b) == IF Less(b, a) THEN b ELSE a
MathMax(a, b) == IF Less(a, b) THEN b ELSE a
MathAbs(a) == <<Abs(a[1]), a[2]>>
\* Math.floor: TLA+'s \div rounds toward minus infinity
MathFloor(a) == a[1] \div a[2]

RECURSIVE ISqrtIn(_, _, _)
\* the greatest r with r * r <= n, given lo * lo <= n < hi * hi
ISqrtIn(n, lo, hi) ==
    IF hi - lo <= 1 THEN lo
    ELSE LET mid == (lo + hi) \div 2
         IN  IF mid * mid <= n THEN ISqrtIn(n, mid, hi) ELSE ISqrtIn(n, lo, mid)
ISqrt(n) == ISqrtIn(n, 0, 46341)
IsSquare(a) == a[1] >= 0 /\ ISqrt(a[1]) * ISqrt(a[1]) = a[1]
                         /\ ISqrt(a[2]) * ISqrt(a[2]) = a[2]
\* Math.sqrt, exact on squares of rationals; elsewhere rounded down to 1/64
MathSqrt(a) ==
    IF IsSquare(a) THEN Q(ISqrt(a[1]), ISqrt(a[2]))
    ELSE Q(ISqrt((a[1] * 64 * 64) \div a[2]), 64)

RECURSIVE MathPow(_, _)
MathPow(b, k) == IF k = 0 THEN One ELSE Times(b, MathPow(b, k - 1))

(***************************************************************************)
(* Vector2 (src/unnamed/part_001): vectors are pairs <<x, y>> of numbers   *)
(***************************************************************************)
Vec(x, y) == <<N(x), N(y)>>
VAdd(v, w) == <<Plus(v[1], w[1]), Plus(v[2], w[2])>>
VSubtract(v, w) == <<Minus(v[1], w[1]), Minus(v[2], w[2])>>
VMultiply(v, s) == <<Times(v[1], s), Times(v[2], s)>>
VDivide(v, s) == IF s # Zero THEN <<Over(v[1], s), Over(v[2], s)>> ELSE v
VDot(v, w) == Plus(Times(v[1], w[1]), Times(v[2], w[2]))
VMagnitudeSquared(v) == VDot(v, v)
\* Math.sqrt(x * x + y * y); along an axis it is |x| or |y|, taken without squaring
VMagnitude(v) ==
    IF v[2] = Zero THEN MathAbs(v[1])
    ELSE IF v[1] = Zero THEN MathAbs(v[2])
    ELSE MathSqrt(VMagnitudeSquared(v))
VNormalize(v) == IF Less(Zero, VMagnitude(v)) THEN VDivide(v, VMagnitude(v)) ELSE v
VDistanceTo(v, w) == VMagnitude(VSubtract(v, w))
VLimit(v, max) ==
    IF Less(Times(max, max), VMagnitudeSquared(v))
    THEN VMultiply(VNormalize(v), max) ELSE v

(***************************************************************************)
(* PhysicsBody                                                             *)
(***************************************************************************)
\* options.f || dflt: an absent field, 0, "" and false all give the default
OrDefault(options, f, falsy, dflt) ==
    IF f \in DOMAIN options /\ options[f] # falsy THEN options[f] ELSE dflt
\* options.f !== false
NotFalse(options, f) == IF f \in DOMAIN options THEN options[f] ELSE TRUE

\* 0xFFFFFFFF as the operator & reads it (ToInt32)
AllBits == -1

DefaultShape == [type |-> "rect", width |-> N(32), height |-> N(32)]
DefaultMaterial == [friction |-> Q(3, 10), restitution |-> Q(2, 10), density |-> One]

\* PhysicsBody.updateBounds: the bounds of a body at position p
BoundsOf(shape, p) ==
    IF shape.type = "rect" THEN
        LET halfWidth == Over(shape.width, N(2))
            halfHeight == Over(shape.height, N(2))
        IN  [left |-> Minus(p[1], halfWidth), right |-> Plus(p[1], halfWidth),
             top |-> Minus(p[2], halfHeight), bottom |-> Plus(p[2], halfHeight)]
    ELSE
        [left |-> Minus(p[1], shape.radius), right |-> Plus(p[1], shape.radius),
         top |-> Minus(p[2], shape.radius), bottom |-> Plus(p[2], shape.radius)]

updateBounds(b) == [b EXCEPT !.bounds = BoundsOf(b.shape, b.position)]

\* new PhysicsBody(options), with id the string Math.random() gave
PhysicsBody(options, id) ==
    LET shape == IF "shape" \in DOMAIN options THEN options.shape ELSE DefaultShape
        position == IF "position" \in DOMAIN options THEN options.position ELSE Vec(0, 0)
    IN  [id |-> id,
         position |-> position,
         velocity |-> IF "velocity" \in DOMAIN options THEN options.velocity ELSE Vec(0, 0),
         rotation |-> OrDefault(options, "rotation", Zero, Zero),
         angularVelocity |-> OrDefault(options, "angularVelocity", Zero, Zero),
         mass |-> OrDefault(options, "mass", Zero, One),
         type |-> OrDefault(options, "type", "", "dynamic"),
         useGravity |-> NotFalse(options, "useGravity"),
         enabled |-> NotFalse(options, "enabled"),
         linearDamping |-> OrDefault(options, "linearDamping", Zero, Q(1, 100)),
         angularDamping |-> OrDefault(options, "angularDamping", Zero, Q(5, 100)),
         maxVelocity |-> OrDefault(options, "maxVelocity", Zero, Zero),
         shape |-> shape,
         material |-> IF "material" \in DOMAIN options THEN options.material
                      ELSE DefaultMaterial,
         collisionLayer |-> OrDefault(options, "collisionLayer", 0, 1),
         collisionMask |-> OrDefault(options, "collisionMask", 0, AllBits),
         isTrigger |-> OrDefault(options, "isTrigger", FALSE, FALSE),
         bounds |-> BoundsOf(shape, position),
         userData |-> OrDefault(options, "userData", "", "")]

getInverseMassOfMass(b) == Over(One, b.mass)

getInverseMass(b) == IF b.type = "static" THEN Zero ELSE Over(One, b.mass)

(***************************************************************************)
(* Narrow phase.  A and B are body records; ra and rb are the references   *)
(* to them that the manifold carries.                                      *)
(***************************************************************************)
null == [null |-> TRUE]

\* bit i (0..31) of the 32-bit two's complement form of n
Bit(n, i) == IF i = 31 THEN (IF n < 0 THEN 1 ELSE 0) ELSE (n \div (2 ^ i)) % 2
\* (m & l) !== 0
BitAndNonZero(m, l) == \E i \in 0..31 : Bit(m, i) = 1 /\ Bit(l, i) = 1

shouldCollideBothWays(A, B) ==
    BitAndNonZero(A.collisionMask, B.collisionLayer) /\
    BitAndNonZero(B.collisionMask, A.collisionLayer)

shouldCollide(A, B) ==
    BitAndNonZero(A.collisionMask, B.collisionLayer) \/
    BitAndNonZero(B.collisionMask, A.collisionLayer)

aabbOverlap(boundsA, boundsB) ==
    ~(Less(boundsA.right, boundsB.left) \/ Less(boundsB.right, boundsA.left) \/
      Less(boundsA.bottom, boundsB.top) \/ Less(boundsB.bottom, boundsA.top))

circleCircleCollisionTouching(A, B, ra, rb) ==
    LET distance == VDistanceTo(A.position, B.position)
        radiusSum == Plus(A.shape.radius, B.shape.radius)
    IN  IF ~Less(radiusSum, distance) THEN
            LET normal == VNormalize(VSubtract(B.position, A.position))
            IN  [bodyA |-> ra, bodyB |-> rb, normal |-> normal,
                 penetration |-> Minus(radiusSum, distance),
                 contactPoint |-> VAdd(A.position, VMultiply(normal, A.shape.radius))]
        ELSE null

circleCircleCollision(A, B, ra, rb) ==
    LET distance == VDistanceTo(A.position, B.position)
        radiusSum == Plus(A.shape.radius, B.shape.radius)
    IN  IF Less(distance, radiusSum) THEN
            LET normal == VNormalize(VSubtract(B.position, A.position))
            IN  [bodyA |-> ra, bodyB |-> rb, normal |-> normal,
                 penetration |-> Minus(radiusSum, distance),
                 contactPoint |-> VAdd(A.position, VMultiply(normal, A.shape.radius))]
        ELSE null

rectRectCollision(A, B, ra, rb) ==
    LET boundsA == A.bounds
        boundsB == B.bounds
        overlapX == Minus(MathMin(boundsA.right, boundsB.right),
                          MathMax(boundsA.left, boundsB.left))
        overlapY == Minus(MathMin(boundsA.bottom, boundsB.bottom),
                          MathMax(boundsA.top, boundsB.top))
        horizontal == Less(overlapX, overlapY)
    IN  IF Less(Zero, overlapX) /\ Less(Zero, overlapY) THEN
            [bodyA |-> ra, bodyB |-> rb,
             normal |-> IF horizontal
                        THEN <<IF Less(A.position[1], B.position[1]) THEN N(-1) ELSE N(1), Zero>>
                        ELSE <<Zero, IF Less(A.position[2], B.position[2]) THEN N(-1) ELSE N(1)>>,
             penetration |-> IF horizontal THEN overlapX ELSE overlapY,
             contactPoint |->
                <<Over(Plus(MathMax(boundsA.left, boundsB.left),
                            MathMin(boundsA.right, boundsB.right)), N(2)),
                  Over(Plus(MathMax(boundsA.top, boundsB.top),
                            MathMin(boundsA.bottom, boundsB.bottom)), N(2))>>]
        ELSE null

circleRectCollision(circleBody, rectBody, rc, rr) ==
    LET circle == circleBody.position
        rect == rectBody.bounds
        closest == <<MathMax(rect.left, MathMin(circle[1], rect.right)),
                     MathMax(rect.top, MathMin(circle[2], rect.bottom))>>
        distance == VDistanceTo(circle, closest)
    IN  IF Less(distance, circleBody.shape.radius) THEN
            [bodyA |-> rc, bodyB |-> rr,
             normal |-> VNormalize(VSubtract(circle, closest)),
             penetration |-> Minus(circleBody.shape.radius, distance),
             contactPoint |-> closest]
        ELSE null

checkCollision(A, B, ra, rb) ==
    IF ~aabbOverlap(A.bounds, B.bounds) THEN null
    ELSE IF A.shape.type = "circle" /\ B.shape.type = "circle"
        THEN circleCircleCollision(A, B, ra, rb)
    ELSE IF A.shape.type = "rect" /\ B.shape.type = "rect"
        THEN rectRectCollision(A, B, ra, rb)
    ELSE IF A.shape.type = "circle" /\ B.shape.type = "rect"
        THEN circleRectCollision(A, B, ra, rb)
    ELSE IF A.shape.type = "rect" /\ B.shape.type = "circle"
        THEN circleRectCollision(B, A, rb, ra)
    ELSE null

(***************************************************************************)
(* Resolver.  Each operator gives the pair <<A', B'>> of the two bodies    *)
(* after the step.                                                         *)
(***************************************************************************)
resolvePosition(A, B, normal, penetration) ==
    LET totalInvMass == Plus(getInverseMass(A), getInverseMass(B))
        correction == VMultiply(normal, Times(Over(penetration, totalInvMass), Q(8, 10)))
    IN  IF totalInvMass = Zero THEN <<A, B>>
        ELSE <<IF A.type = "dynamic"
               THEN updateBounds([A EXCEPT !.position =
                        VSubtract(@, VMultiply(correction, getInverseMass(A)))])
               ELSE A,
               IF B.type = "dynamic"
               THEN updateBounds([B EXCEPT !.position =
                        VAdd(@, VMultiply(correction, getInverseMass(B)))])
               ELSE B>>

applyFriction(A, B, normal, impulseScalar) ==
    LET relativeVelocity == VSubtract(B.velocity, A.velocity)
        tangent == VNormalize(VSubtract(relativeVelocity,
                       VMultiply(normal, VDot(relativeVelocity, normal))))
        frictionImpulse == Neg(VDot(relativeVelocity, tangent))
        totalInvMass == Plus(getInverseMass(A), getInverseMass(B))
        mu == MathSqrt(Times(A.material.friction, B.material.friction))
        friction ==
            IF Less(MathAbs(frictionImpulse), Times(impulseScalar, mu))
            THEN VMultiply(tangent, Over(frictionImpulse, totalInvMass))
            ELSE VMultiply(tangent, Over(Times(Neg(impulseScalar), mu), totalInvMass))
    IN  IF totalInvMass = Zero THEN <<A, B>>
        ELSE <<IF A.type = "dynamic"
               THEN [A EXCEPT !.velocity = VSubtract(@, VMultiply(friction, getInverseMass(A)))]
               ELSE A,
               IF B.type = "dynamic"
               THEN [B EXCEPT !.velocity = VAdd(@, VMultiply(friction, getInverseMass(B)))]
               ELSE B>>

resolveVelocityUnweighted(A, B, normal) ==
    LET relativeVelocity == VSubtract(B.velocity, A.velocity)
        velocityAlongNormal == VDot(relativeVelocity, normal)
        restitution == MathMin(A.material.restitution, B.material.restitution)
        impulseScalar == Times(Neg(Plus(One, restitution)), velocityAlongNormal)
        totalInvMass == Plus(getInverseMass(A), getInverseMass(B))
        impulse == VMultiply(normal, Over(impulseScalar, totalInvMass))
        A1 == IF A.type = "dynamic"
              THEN [A EXCEPT !.velocity = VSubtract(@, VMultiply(impulse, getInverseMass(A)))]
              ELSE A
        B1 == IF B.type = "dynamic"
              THEN [B EXCEPT !.velocity = VAdd(@, VMultiply(impulse, getInverseMass(A)))]
              ELSE B
    IN  IF Less(Zero, velocityAlongNormal) THEN <<A, B>>
        ELSE IF totalInvMass = Zero THEN <<A, B>>
        ELSE applyFriction(A1, B1, normal, impulseScalar)

resolveVelocityZeroTotalAsOne(A, B, normal) ==
    LET relativeVelocity == VSubtract(B.velocity, A.velocity)
        velocityAlongNormal == VDot(relativeVelocity, normal)
        restitution == MathMin(A.material.restitution, B.material.restitution)
        impulseScalar == Times(Neg(Plus(One, restitution)), velocityAlongNormal)
        sum == Plus(getInverseMass(A), getInverseMass(B))
        totalInvMass == IF sum = Zero THEN One ELSE sum
        impulse == VMultiply(normal, Over(impulseScalar, totalInvMass))
        A1 == IF A.type = "dynamic"
              THEN [A EXCEPT !.velocity = VSubtract(@, VMultiply(impulse, getInverseMass(A)))]
              ELSE A
        B1 == IF B.type = "dynamic"
              THEN [B EXCEPT !.velocity = VAdd(@, VMultiply(impulse, getInverseMass(B)))]
              ELSE B
    IN  IF Less(Zero, velocityAlongNormal) THEN <<A, B>>
        ELSE applyFriction(A1, B1, normal, impulseScalar)

resolveVelocity(A, B, normal) ==
    LET relativeVelocity == VSubtract(B.velocity, A.velocity)
        velocityAlongNormal == VDot(relativeVelocity, normal)
        restitution == MathMin(A.material.restitution, B.material.restitution)
        impulseScalar == Times(Neg(Plus(One, restitution)), velocityAlongNormal)
        totalInvMass == Plus(getInverseMass(A), getInverseMass(B))
        impulse == VMultiply(normal, Over(impulseScalar, totalInvMass))
        A1 == IF A.type = "dynamic"
              THEN [A EXCEPT !.velocity = VSubtract(@, VMultiply(impulse, getInverseMass(A)))]
              ELSE A
        B1 == IF B.type = "dynamic"
              THEN [B EXCEPT !.velocity = VAdd(@, VMultiply(impulse, getInverseMass(B)))]
              ELSE B
    IN  IF Less(Zero, velocityAlongNormal) THEN <<A, B>>
        ELSE IF totalInvMass = Zero THEN <<A, B>>
        ELSE applyFriction(A1, B1, normal, impulseScalar)

resolveCollision(A, B, normal, penetration) ==
    LET p == resolvePosition(A, B, normal, penetration)
    IN  resolveVelocity(p[1], p[2], normal)

(***************************************************************************)
(* SpatialHash.  The grid is a Map from cell keys to Sets of bodies, both  *)
(* iterated in insertion order: a sequence of [key, cell] records whose    *)
(* cell is a sequence of body references without repetition.               *)
(***************************************************************************)
cellSize == 64

RECURSIVE Range(_, _)
\* the integers lo..hi in ascending order, as a sequence
Range(lo, hi) == IF lo > hi THEN <<>> ELSE <<lo>> \o Range(lo + 1, hi)

RECURSIVE Flatten(_)
Flatten(ss) == IF ss = <<>> THEN <<>> ELSE Head(ss) \o Flatten(Tail(ss))

getCells(bounds) ==
    LET startX == MathFloor(Over(bounds.left, N(cellSize)))
        endX == MathFloor(Over(bounds.right, N(cellSize)))
        startY == MathFloor(Over(bounds.top, N(cellSize)))
        endY == MathFloor(Over(bounds.bottom, N(cellSize)))
        xs == Range(startX, endX)
        ys == Range(startY, endY)
    IN  Flatten([i \in 1..Len(xs) |-> [j \in 1..Len(ys) |-> <<xs[i], ys[j]>>]])

InSeq(x, sq) == \E i \in 1..Len(sq) : sq[i] = x

insertCellFreshSet(g, k, o) ==
    IF \E i \in 1..Len(g) : g[i].key = k
    THEN [i \in 1..Len(g) |-> IF g[i].key = k THEN [g[i] EXCEPT !.cell = <<o>>] ELSE g[i]]
    ELSE Append(g, [key |-> k, cell |-> <<o>>])

\* one step of insert's forEach: add body reference o to the cell with key k
insertCell(g, k, o) ==
    IF \E i \in 1..Len(g) : g[i].key = k
    THEN [i \in 1..Len(g) |->
            IF g[i].key = k /\ ~InSeq(o, g[i].cell)
            THEN [g[i] EXCEPT !.cell = Append(@, o)] ELSE g[i]]
    ELSE Append(g, [key |-> k, cell |-> <<o>>])

RECURSIVE insertCells(_, _, _)
insertCells(g, cells, o) ==
    IF cells = <<>> THEN g
    ELSE insertCells(insertCell(g, Head(cells), o), Tail(cells), o)

insert(g, o, b) == insertCells(g, getCells(b.bounds), o)

\* the key under which getPotentialCollisions remembers a pair of ids
pairKey(idA, idB) == IF idA < idB THEN <<idA, idB>> ELSE <<idB, idA>>

\* the pairs <<bodyArray[i], bodyArray[j]>>, i < j, of one cell, in loop order
cellPairs(cell) ==
    Flatten([i \in 1..Len(cell) |->
                [k \in 1..(Len(cell) - i) |-> <<cell[i], cell[i + k]>>]])

keepUnprocessedEveryCell(h, cand, processed, acc) == acc \o cand

RECURSIVE keepUnprocessed(_, _, _, _)
\* the pairs of cand not yet processed, in order; acc is the result so far
keepUnprocessed(h, cand, processed, acc) ==
    IF cand = <<>> THEN acc
    ELSE LET pr == Head(cand)
             key == pairKey(h[pr[1]].id, h[pr[2]].id)
         IN  IF key \in processed
             THEN keepUnprocessed(h, Tail(cand), processed, acc)
             ELSE keepUnprocessed(h, Tail(cand), processed \cup {key}, Append(acc, pr))

getPotentialCollisions(g, h) ==
    keepUnprocessed(h, Flatten([i \in 1..Len(g) |-> cellPairs(g[i].cell)]), {}, <<>>)

(***************************************************************************)
(* PhysicsEngine: the steps of update                                      *)
(***************************************************************************)
gravity == Vec(0, 980)

\* the body of updateDynamicBodies' forEach, for an enabled body
integrate(b, dt) ==
    LET v1 == IF b.useGravity THEN VAdd(b.velocity, VMultiply(gravity, N(dt)))
              ELSE b.velocity
        v2 == VMultiply(v1, MathPow(Minus(One, b.linearDamping), dt))
        v3 == IF Less(Zero, b.maxVelocity) THEN VLimit(v2, b.maxVelocity) ELSE v2
        av == Times(b.angularVelocity, MathPow(Minus(One, b.angularDamping), dt))
    IN  updateBounds([b EXCEPT !.velocity = v3,
                               !.angularVelocity = av,
                               !.position = VAdd(@, VMultiply(v3, N(dt))),
                               !.rotation = Plus(@, Times(av, N(dt)))])

updateDynamicBodiesOfMap(h, dyn, dt) ==
    [o \in 1..Len(h) |-> IF h[o].enabled THEN integrate(h[o], dt) ELSE h[o]]

updateDynamicBodies(h, dyn, dt) ==
    [o \in 1..Len(h) |-> IF o \in dyn /\ h[o].enabled THEN integrate(h[o], dt) ELSE h[o]]

examineStaticPairsToo(h, pr) ==
    LET A == h[pr[1]]
        B == h[pr[2]]
    IN  IF pr[1] = pr[2] THEN null
        ELSE IF ~shouldCollide(A, B) THEN null
        ELSE checkCollision(A, B, pr[1], pr[2])

\* what detectCollisions' forEach makes of one candidate pair: a manifold or null
examine(h, pr) ==
    LET A == h[pr[1]]
        B == h[pr[2]]
    IN  IF pr[1] = pr[2] THEN null
        ELSE IF A.type = "static" /\ B.type = "static" THEN null
        ELSE IF ~shouldCollide(A, B) THEN null
        ELSE checkCollision(A, B, pr[1], pr[2])

collisionEventNameOneOrder(typeA, typeB) ==
    IF typeA = "" \/ typeB = "" THEN ""
    ELSE IF typeA = "player" /\ typeB = "enemy" THEN "collision_player_enemy"
    ELSE IF typeA = "bullet" /\ typeB = "enemy" THEN "collision_bullet_enemy"
    ELSE IF typeA = "player" /\ typeB = "powerup" THEN "collision_player_powerup"
    ELSE ""

\* the event emitCollisionEvent chooses for the type tags of the two userData
collisionEventName(typeA, typeB) ==
    IF typeA = "" \/ typeB = "" THEN ""
    ELSE IF (typeA = "player" /\ typeB = "enemy") \/ (typeA = "enemy" /\ typeB = "player")
        THEN "collision_player_enemy"
    ELSE IF (typeA = "bullet" /\ typeB = "enemy") \/ (typeA = "enemy" /\ typeB = "bullet")
        THEN "collision_bullet_enemy"
    ELSE IF (typeA = "player" /\ typeB = "powerup") \/ (typeA = "powerup" /\ typeB = "player")
        THEN "collision_player_powerup"
    ELSE ""

\* the notification of one candidate pair and its manifold: what is sent to the
\* bus, and the state of the two bodies a listener reads through it
emitCollisionEvent(h, pr, collision) ==
    [name |-> collisionEventName(h[pr[1]].userData, h[pr[2]].userData),
     bodyA |-> pr[1], bodyB |-> pr[2], collision |-> collision,
     seenA |-> h[pr[1]], seenB |-> h[pr[2]]]

detectCollisionsCountsFound(h, pairs) ==
    LET found == [i \in 1..Len(pairs) |-> examine(h, pairs[i])]
        hits == SelectSeq(Range(1, Len(pairs)), LAMBDA i : found[i] # null)
        events == [k \in 1..Len(hits) |-> emitCollisionEvent(h, pairs[hits[k]], found[hits[k]])]
    IN  [collisionPairs |-> [k \in 1..Len(hits) |-> found[hits[k]]],
         collisionChecks |-> Len(hits),
         collisionsDetected |-> Len(hits),
         events |-> SelectSeq(events, LAMBDA e : e.name # "")]

detectCollisions(h, pairs) ==
    LET found == [i \in 1..Len(pairs) |-> examine(h, pairs[i])]
        hits == SelectSeq(Range(1, Len(pairs)), LAMBDA i : found[i] # null)
        events == [k \in 1..Len(hits) |-> emitCollisionEvent(h, pairs[hits[k]], found[hits[k]])]
    IN  [collisionPairs |-> [k \in 1..Len(hits) |-> found[hits[k]]],
         collisionChecks |-> Len(pairs),
         collisionsDetected |-> Len(hits),
         events |-> SelectSeq(events, LAMBDA e : e.name # "")]

RECURSIVE resolveCollisions(_, _)
resolveCollisions(h, cs) ==
    IF cs = <<>> THEN h
    ELSE LET c == Head(cs)
             r == resolveCollision(h[c.bodyA], h[c.bodyB], c.normal, c.penetration)
         IN  resolveCollisions([h EXCEPT ![c.bodyA] = r[1], ![c.bodyB] = r[2]], Tail(cs))

RECURSIVE insertAll(_, _, _)
insertAll(g, h, entries) ==
    IF entries = <<>> THEN g
    ELSE LET o == Head(entries).body
         IN  insertAll(IF h[o].enabled THEN insert(g, o, h[o]) ELSE g, h, Tail(entries))

\* broadPhase.clear() and the insertion of every enabled body of the Map
updateSpatialHash(h, map) == insertAll(<<>>, h, map)

(***************************************************************************)
(* Raycaster.  Its quotients may have a zero divisor, so its numbers are   *)
(* the JS numbers with Infinity, -Infinity and NaN.                        *)
(***************************************************************************)
Infinity == <<1, 0>>
NegInfinity == <<-1, 0>>
NaN == <<0, 0>>
isFinite(a) == a[2] # 0

\* a / b for finite a and b
JsDivide(a, b) ==
    IF b # Zero THEN Over(a, b)
    ELSE IF a = Zero THEN NaN
    ELSE IF Less(Zero, a) THEN Infinity ELSE NegInfinity

JsLess(a, b) ==
    IF a = NaN \/ b = NaN THEN FALSE
    ELSE IF isFinite(a) /\ isFinite(b) THEN Less(a, b)
    ELSE a # b /\ (a = NegInfinity \/ b = Infinity)

JsLessEq(a, b) == a # NaN /\ b # NaN /\ (a = b \/ JsLess(a, b))

JsMin(a, b) == IF a = NaN \/ b = NaN THEN NaN ELSE IF JsLess(b, a) THEN b ELSE a
JsMax(a, b) == IF a = NaN \/ b = NaN THEN NaN ELSE IF JsLess(a, b) THEN b ELSE a

JsTimes(a, b) ==
    IF a = NaN \/ b = NaN THEN NaN
    ELSE IF isFinite(a) /\ isFinite(b) THEN Times(a, b)
    ELSE IF a = Zero \/ b = Zero THEN NaN
    ELSE IF (a[1] > 0) = (b[1] > 0) THEN Infinity ELSE NegInfinity

JsPlus(a, b) ==
    IF a = NaN \/ b = NaN THEN NaN
    ELSE IF isFinite(a) /\ isFinite(b) THEN Plus(a, b)
    ELSE IF isFinite(b) THEN a
    ELSE IF isFinite(a) THEN b
    ELSE IF a = b THEN a ELSE NaN

JsMinus(a, b) == JsPlus(a, <<-b[1], b[2]>>)

calculateHitNormal(point, bounds) ==
    LET center == <<Over(Plus(bounds.left, bounds.right), N(2)),
                    Over(Plus(bounds.top, bounds.bottom), N(2))>>
        diff == <<JsMinus(point[1], center[1]), JsMinus(point[2], center[2])>>
        absX == MathAbs(diff[1])
        absY == MathAbs(diff[2])
    IN  IF JsLess(absY, absX)
        THEN (IF JsLess(Zero, diff[1]) THEN Vec(1, 0) ELSE Vec(-1, 0))
        ELSE (IF JsLess(Zero, diff[2]) THEN Vec(0, 1) ELSE Vec(0, -1))

raycastBodyOfAnyShape(origin, direction, maxDistance, b, o) ==
    LET bounds == b.bounds
        dirNorm == VNormalize(direction)
        tMin == JsDivide(Minus(bounds.left, origin[1]), dirNorm[1])
        tMax == JsDivide(Minus(bounds.right, origin[1]), dirNorm[1])
        tYMin == JsDivide(Minus(bounds.top, origin[2]), dirNorm[2])
        tYMax == JsDivide(Minus(bounds.bottom, origin[2]), dirNorm[2])
        tNear == JsMax(JsMin(tMin, tMax), JsMin(tYMin, tYMax))
        tFar == JsMin(JsMax(tMin, tMax), JsMax(tYMin, tYMax))
        hitPoint == <<JsPlus(origin[1], JsTimes(dirNorm[1], tNear)),
                      JsPlus(origin[2], JsTimes(dirNorm[2], tNear))>>
    IN  IF JsLessEq(tNear, tFar) /\ JsLessEq(Zero, tNear) /\ JsLessEq(tNear, maxDistance)
        THEN [body |-> o, point |-> hitPoint, distance |-> tNear,
              normal |-> calculateHitNormal(hitPoint, bounds)]
        ELSE null

\* the hit of the ray on body b, known as o, or null
raycastBody(origin, direction, maxDistance, b, o) ==
    LET bounds == b.bounds
        dirNorm == VNormalize(direction)
        tMin == JsDivide(Minus(bounds.left, origin[1]), dirNorm[1])
        tMax == JsDivide(Minus(bounds.right, origin[1]), dirNorm[1])
        tYMin == JsDivide(Minus(bounds.top, origin[2]), dirNorm[2])
        tYMax == JsDivide(Minus(bounds.bottom, origin[2]), dirNorm[2])
        tNear == JsMax(JsMin(tMin, tMax), JsMin(tYMin, tYMax))
        tFar == JsMin(JsMax(tMin, tMax), JsMax(tYMin, tYMax))
        hitPoint == <<JsPlus(origin[1], JsTimes(dirNorm[1], tNear)),
                      JsPlus(origin[2], JsTimes(dirNorm[2], tNear))>>
    IN  IF b.shape.type # "rect" THEN null
        ELSE IF JsLessEq(tNear, tFar) /\ JsLessEq(Zero, tNear) /\ JsLessEq(tNear, maxDistance)
        THEN [body |-> o, point |-> hitPoint, distance |-> tNear,
              normal |-> calculateHitNormal(hitPoint, bounds)]
        ELSE null

\* the comparator of hits.sort; a NaN result counts as 0
compareHits(a, b) ==
    LET diff == JsMinus(a.distance, b.distance)
    IN  IF diff = NaN THEN Zero ELSE diff

RECURSIVE insertHit(_, _)
\* hit x put into the sorted sequence sq behind the hits that do not compare greater
insertHit(sq, x) ==
    IF sq = <<>> THEN <<x>>
    ELSE IF JsLess(Zero, compareHits(Head(sq), x)) THEN <<x>> \o sq
    ELSE <<Head(sq)>> \o insertHit(Tail(sq), x)

sortHitsInMapOrder(hits, acc) == acc \o hits

RECURSIVE sortHits(_, _)
\* Array.prototype.sort, which is stable, with compareHits
sortHits(hits, acc) ==
    IF hits = <<>> THEN acc ELSE sortHits(Tail(hits), insertHit(acc, Head(hits)))

RECURSIVE collectHits(_, _, _, _, _, _)
\* the forEach of raycast over the entries of the Map
collectHits(h, entries, origin, direction, maxDistance, layerMask) ==
    IF entries = <<>> THEN <<>>
    ELSE LET o == Head(entries).body
             rest == collectHits(h, Tail(entries), origin, direction, maxDistance, layerMask)
             hit == raycastBody(origin, direction, maxDistance, h[o], o)
         IN  IF ~h[o].enabled \/ ~BitAndNonZero(h[o].collisionLayer, layerMask) THEN rest
             ELSE IF hit # null THEN <<hit>> \o rest
             ELSE rest

(***************************************************************************)
(* The world                                                               *)
(***************************************************************************)
VARIABLES
    heap,            \* the PhysicsBody objects ever constructed; a reference is an index
    bodies,          \* PhysicsEngine.bodies: the Map id -> body, in insertion order
    staticBodies,    \* PhysicsEngine.staticBodies
    dynamicBodies,   \* PhysicsEngine.dynamicBodies
    grid,            \* PhysicsEngine.broadPhase.grid
    collisionPairs,  \* PhysicsEngine.collisionPairs: the manifolds of the last update
    stats,           \* PhysicsEngine.stats
    emitted,         \* what the last call sent to gameEventBus, in order
    call,            \* the last call of the engine's interface and how it ended
    tick,            \* the last update call: its candidate pairs and the bodies
                     \* at its start and after its integration step
    calls,           \* the number of calls made so far
    probe,           \* two bodies outside any world, and what the narrow phase
                     \* and the resolver make of them
    removed          \* body reference -> number of bodies constructed when
                     \* removeBody last erased it from the registry

vars == <<heap, bodies, staticBodies, dynamicBodies, grid, collisionPairs, stats,
          emitted, call, tick, calls, probe, removed>>

\* the number of calls of the engine's interface a behaviour makes
MaxCalls == 5

\* the strings Math.random().toString(36).substr(2, 9) may give, in string order
Ids == {1, 2}
\* a string not drawn before: the n-th body gets the n-th string
FreshId == Len(heap) + 1

\* the elapsed times update is called with
DeltaTimes == {1}

Circle(r) == [type |-> "circle", radius |-> N(r)]
Rect(w, h) == [type |-> "rect", width |-> N(w), height |-> N(h)]

\* the options createBody is called with
Options ==
    { [position |-> Vec(8, 0), useGravity |-> FALSE, userData |-> "player"],
      [position |-> Vec(0, 0), velocity |-> Vec(4, 0), useGravity |-> FALSE,
       linearDamping |-> Q(1, 2), userData |-> "enemy", mass |-> N(2),
       collisionLayer |-> 4, collisionMask |-> 5],
      [type |-> "static", mass |-> N(5), position |-> Vec(0, 8), userData |-> "powerup"],
      [type |-> "static", position |-> Vec(16, 0), userData |-> "player",
       collisionLayer |-> 2, collisionMask |-> 1] }

\* the options createBody is called with where ids may repeat
RegistryOptions ==
    { [type |-> "static", mass |-> N(5), position |-> Vec(32, 32)],
      [mass |-> N(-5), useGravity |-> FALSE, position |-> Vec(40, 32)] }

has(map, id) == \E i \in 1..Len(map) : map[i].id = id
get(map, id) == (CHOOSE i \in 1..Len(map) : map[i].id = id)
\* Map.set: a new key is appended, an old key keeps its place
set(map, id, o) ==
    IF has(map, id)
    THEN [i \in 1..Len(map) |-> IF map[i].id = id THEN [id |-> id, body |-> o] ELSE map[i]]
    ELSE Append(map, [id |-> id, body |-> o])
delete(map, id) == SelectSeq(map, LAMBDA e : e.id # id)

NoTick == [pairs |-> <<>>, start |-> <<>>, integrated |-> <<>>, grid |-> <<>>, count |-> 0]
NoProbe == [stage |-> "none"]

\* new PhysicsEngine()
World ==
    /\ heap = <<>>
    /\ bodies = <<>>
    /\ staticBodies = {}
    /\ dynamicBodies = {}
    /\ grid = <<>>
    /\ collisionPairs = <<>>
    /\ stats = [bodyCount |-> 0, collisionChecks |-> 0, collisionsDetected |-> 0]
    /\ emitted = <<>>
    /\ call = [name |-> "constructor"]
    /\ tick = NoTick
    /\ calls = 0
    /\ removed = <<>>

Init == World /\ probe = NoProbe

createBody(options, id) ==
    LET o == Len(heap) + 1
        body == PhysicsBody(options, id)
    IN  /\ calls < MaxCalls
        /\ calls' = calls + 1
        /\ heap' = Append(heap, body)
        /\ bodies' = set(bodies, id, o)
        /\ IF body.type = "static"
           THEN staticBodies' = staticBodies \cup {o} /\ UNCHANGED dynamicBodies
           ELSE dynamicBodies' = dynamicBodies \cup {o} /\ UNCHANGED staticBodies
        /\ stats' = [stats EXCEPT !.bodyCount = @ + 1]
        /\ call' = [name |-> "createBody", options |-> options, threw |-> FALSE, body |-> o]
        /\ emitted' = <<>>
        /\ UNCHANGED <<grid, collisionPairs, tick, removed, probe>>

removeBodyKeepsDynamic(o) ==
    LET id == heap[o].id
    IN  /\ calls < MaxCalls
        /\ calls' = calls + 1
        /\ IF has(bodies, id)
           THEN /\ bodies' = delete(bodies, id)
                /\ staticBodies' = staticBodies \ {o}
                /\ dynamicBodies' = dynamicBodies
                /\ stats' = [stats EXCEPT !.bodyCount = @ - 1]
                /\ removed' = [x \in DOMAIN removed \cup {o} |->
                                  IF x = o THEN Len(heap) ELSE removed[x]]
           ELSE UNCHANGED <<bodies, staticBodies, dynamicBodies, stats, removed>>
        /\ call' = [name |-> "removeBody", body |-> o, threw |-> FALSE,
                    registered |-> has(bodies, id)]
        /\ emitted' = <<>>
        /\ UNCHANGED <<heap, grid, collisionPairs, tick, probe>>

removeBodyUnguardedCount(o) ==
    LET id == heap[o].id
    IN  /\ calls < MaxCalls
        /\ calls' = calls + 1
        /\ bodies' = delete(bodies, id)
        /\ staticBodies' = staticBodies \ {o}
        /\ dynamicBodies' = dynamicBodies \ {o}
        /\ stats' = [stats EXCEPT !.bodyCount = @ - 1]
        /\ removed' = IF has(bodies, id)
                      THEN [x \in DOMAIN removed \cup {o} |->
                               IF x = o THEN Len(heap) ELSE removed[x]]
                      ELSE removed
        /\ call' = [name |-> "removeBody", body |-> o, threw |-> FALSE,
                    registered |-> has(bodies, id)]
        /\ emitted' = <<>>
        /\ UNCHANGED <<heap, grid, collisionPairs, tick, probe>>

removeBody(o) ==
    LET id == heap[o].id
    IN  /\ calls < MaxCalls
        /\ calls' = calls + 1
        /\ IF has(bodies, id)
           THEN /\ bodies' = delete(bodies, id)
                /\ staticBodies' = staticBodies \ {o}
                /\ dynamicBodies' = dynamicBodies \ {o}
                /\ stats' = [stats EXCEPT !.bodyCount = @ - 1]
                /\ removed' = [x \in DOMAIN removed \cup {o} |->
                                  IF x = o THEN Len(heap) ELSE removed[x]]
           ELSE UNCHANGED <<bodies, staticBodies, dynamicBodies, stats, removed>>
        /\ call' = [name |-> "removeBody", body |-> o, threw |-> FALSE,
                    registered |-> has(bodies, id)]
        /\ emitted' = <<>>
        /\ UNCHANGED <<heap, grid, collisionPairs, tick, probe>>

update(deltaTime) ==
    LET h1 == updateDynamicBodies(heap, dynamicBodies, deltaTime)
        pairs == getPotentialCollisions(grid, h1)
        d == detectCollisions(h1, pairs)
        h2 == resolveCollisions(h1, d.collisionPairs)
    IN  /\ calls < MaxCalls
        /\ calls' = calls + 1
        /\ heap' = h2
        /\ collisionPairs' = d.collisionPairs
        /\ stats' = [stats EXCEPT !.collisionChecks = d.collisionChecks,
                                  !.collisionsDetected = d.collisionsDetected]
        /\ grid' = updateSpatialHash(h2, bodies)
        /\ emitted' = Append(d.events, [name |-> "physics_update", deltaTime |-> deltaTime,
                                        bodyCount |-> stats.bodyCount])
        /\ call' = [name |-> "update", deltaTime |-> deltaTime, threw |-> FALSE]
        /\ tick' = [pairs |-> pairs, start |-> heap, integrated |-> h1, grid |-> grid,
                    count |-> tick.count + 1]
        /\ UNCHANGED <<bodies, staticBodies, dynamicBodies, removed, probe>>

Next ==
    \/ \E options \in Options : createBody(options, FreshId)
    \/ \E o \in 1..Len(heap) : removeBody(o)
    \/ \E deltaTime \in DeltaTimes : update(deltaTime)

Spec == Init /\ [][Next]_vars

\* the registry under ids that may repeat
NextRegistry ==
    \/ \E options \in RegistryOptions, id \in Ids : createBody(options, id)
    \/ \E o \in 1..Len(heap) : removeBody(o)
    \/ \E deltaTime \in DeltaTimes : update(deltaTime)

SpecRegistry == Init /\ [][NextRegistry]_vars

(***************************************************************************)
(* The world under a client that also writes to the handles it holds       *)
(***************************************************************************)
BodyOptions ==
    { [position |-> Vec(8, 0), useGravity |-> FALSE, linearDamping |-> Q(1, 2),
       userData |-> "bullet"],
      [position |-> Vec(0, 0), velocity |-> Vec(4, 0), useGravity |-> FALSE,
       linearDamping |-> Q(1, 2), userData |-> "enemy", mass |-> N(2)],
      [type |-> "static", position |-> Vec(0, 8)],
      [position |-> Vec(8, 8), velocity |-> Vec(4, 0), useGravity |-> FALSE,
       linearDamping |-> Q(1, 2), enabled |-> FALSE] }

Forces == {Vec(2, 0)}

\* body.enabled = false, written by the holder of the handle
disable(o) ==
    /\ calls < MaxCalls
    /\ calls' = calls + 1
    /\ heap[o].enabled
    /\ heap' = [heap EXCEPT ![o].enabled = FALSE]
    /\ call' = [name |-> "disable", body |-> o, threw |-> FALSE]
    /\ emitted' = <<>>
    /\ UNCHANGED <<bodies, staticBodies, dynamicBodies, grid, collisionPairs, stats,
                   tick, removed, probe>>

\* body.applyForce(force)
applyForce(o, force) ==
    /\ calls < MaxCalls
    /\ calls' = calls + 1
    /\ heap' = IF heap[o].type = "dynamic"
               THEN [heap EXCEPT ![o].velocity =
                        VAdd(@, VMultiply(force, getInverseMass(heap[o])))]
               ELSE heap
    /\ call' = [name |-> "applyForce", body |-> o, threw |-> FALSE]
    /\ emitted' = <<>>
    /\ UNCHANGED <<bodies, staticBodies, dynamicBodies, grid, collisionPairs, stats,
                   tick, removed, probe>>

\* body.applyImpulse(impulse)
applyImpulse(o, impulse) ==
    /\ calls < MaxCalls
    /\ calls' = calls + 1
    /\ heap' = IF heap[o].type = "dynamic"
               THEN [heap EXCEPT ![o].velocity =
                        VAdd(@, VMultiply(impulse, getInverseMass(heap[o])))]
               ELSE heap
    /\ call' = [name |-> "applyImpulse", body |-> o, threw |-> FALSE]
    /\ emitted' = <<>>
    /\ UNCHANGED <<bodies, staticBodies, dynamicBodies, grid, collisionPairs, stats,
                   tick, removed, probe>>

NextBody ==
    \/ \E options \in BodyOptions : createBody(options, FreshId)
    \/ \E deltaTime \in DeltaTimes : update(deltaTime)
    \/ \E o \in 1..Len(heap) : disable(o)
    \/ \E o \in 1..Len(heap), force \in Forces : applyForce(o, force)
    \/ \E o \in 1..Len(heap), impulse \in Forces : applyImpulse(o, impulse)

SpecBody == Init /\ [][NextBody]_vars

(***************************************************************************)
(* The world under ray casts                                               *)
(***************************************************************************)
RayOptions ==
    { [type |-> "static", position |-> Vec(105, 0), shape |-> Rect(10, 10)],
      [type |-> "static", position |-> Vec(60, 10), shape |-> Rect(20, 40),
       collisionLayer |-> 2],
      [type |-> "static", position |-> Vec(30, 0), shape |-> Rect(10, 10),
       enabled |-> FALSE],
      [type |-> "static", position |-> Vec(80, 0), shape |-> Circle(5)] }
\* the most bodies a world under ray casts gets
MaxRayBodies == 3
\* the rays cast: <<origin, direction, maxDistance, layerMask>>
Rays ==
    { <<Vec(0, 0), Vec(1, 0), N(1000), AllBits>>,
      <<Vec(0, 5), Vec(1, 0), N(1000), AllBits>>,
      <<Vec(0, 6), Vec(1, 0), N(1000), AllBits>>,
      <<Vec(0, 0), Vec(1, 0), N(60), AllBits>>,
      <<Vec(0, 0), Vec(1, 0), N(1000), 1>>,
      <<Vec(60, -20), Vec(0, 1), N(1000), AllBits>>,
      <<Vec(120, 0), Vec(-1, 0), Infinity, AllBits>> }

\* raycast(origin, direction, maxDistance, layerMask); the call record holds the
\* array it returns
raycast(origin, direction, maxDistance, layerMask) ==
    /\ call' = [name |-> "raycast", origin |-> origin, direction |-> direction,
                maxDistance |-> maxDistance, layerMask |-> layerMask, threw |-> FALSE,
                hits |-> sortHits(collectHits(heap, bodies, origin, direction,
                                              maxDistance, layerMask), <<>>)]
    /\ emitted' = <<>>
    /\ UNCHANGED <<heap, bodies, staticBodies, dynamicBodies, grid, collisionPairs, stats,
                   tick, calls, removed, probe>>

\* bodies are created up to MaxRayBodies, and the oldest registered one is removed
NextRay ==
    \/ \E options \in RayOptions : Len(heap) < MaxRayBodies /\ createBody(options, FreshId)
    \/ Len(bodies) > 0 /\ removeBody(bodies[1].body)
    \/ \E ray \in Rays : raycast(ray[1], ray[2], ray[3], ray[4])

SpecRay == Init /\ [][NextRay]_vars

(***************************************************************************)
(* The narrow phase and the resolver on two bodies outside any world       *)
(***************************************************************************)
world == <<heap, bodies, staticBodies, dynamicBodies, grid, collisionPairs, stats,
           emitted, call, tick, calls, removed>>

ProbePositions ==
    { Vec(0, 0), Vec(15, 0), Vec(20, 0), Vec(28, 0), Vec(9, 12), Vec(12, 16),
      Vec(0, -30), Vec(-15, 0) }
ProbeFilters == { [collisionLayer |-> 1, collisionMask |-> 2],
                  [collisionLayer |-> 2, collisionMask |-> 1],
                  [collisionLayer |-> 4, collisionMask |-> 1],
                  [collisionLayer |-> 0, collisionMask |-> 0] }

\* the options of the first body: at the origin
ProbeOptionsA ==
    { [shape |-> sh, type |-> ty, mass |-> ms,
       collisionLayer |-> f.collisionLayer, collisionMask |-> f.collisionMask] :
      sh \in {Circle(10), Rect(32, 32)}, ty \in {"dynamic", "static", "kinematic"},
      ms \in {N(1), N(5)}, f \in ProbeFilters }
\* the options of the second body
ProbeOptionsB ==
    { [shape |-> sh, position |-> p, type |-> ty, mass |-> N(1),
       collisionLayer |-> f.collisionLayer, collisionMask |-> f.collisionMask] :
      sh \in {Circle(10), Circle(5), Rect(32, 32)}, p \in ProbePositions,
      ty \in {"dynamic", "static"}, f \in ProbeFilters }

InitProbe ==
    /\ World
    /\ \E a \in ProbeOptionsA, b \in ProbeOptionsB :
          probe = [stage |-> "bodies", A |-> PhysicsBody(a, 1), B |-> PhysicsBody(b, 2)]

\* checkCollision(A, B)
Check ==
    /\ probe.stage = "bodies"
    /\ probe' = [stage |-> "checked", A |-> probe.A, B |-> probe.B,
                 filter |-> shouldCollide(probe.A, probe.B),
                 collision |-> checkCollision(probe.A, probe.B, "A", "B")]
    /\ UNCHANGED world

\* the body a manifold's reference stands for
Deref(r) == IF r = "A" THEN probe.A ELSE probe.B

\* resolvePosition on the manifold of the two bodies
Correct ==
    /\ probe.stage = "checked"
    /\ probe.collision # null
    /\ LET c == probe.collision
           r == resolvePosition(Deref(c.bodyA), Deref(c.bodyB), c.normal, c.penetration)
       IN  probe' = [stage |-> "corrected", A |-> probe.A, B |-> probe.B,
                     filter |-> probe.filter, collision |-> c,
                     A2 |-> IF c.bodyA = "A" THEN r[1] ELSE r[2],
                     B2 |-> IF c.bodyA = "A" THEN r[2] ELSE r[1]]
    /\ UNCHANGED world

NextProbe == Check \/ Correct

SpecProbe == InitProbe /\ [][NextProbe]_vars

(***************************************************************************)
(* resolveCollision on two moving bodies outside any world                 *)
(***************************************************************************)
ResolveShapes == {Circle(10), Rect(32, 32)}
ResolveVelocities == {Vec(4, 0), Vec(-4, 0), Vec(0, 4), Vec(0, 0)}
ResolveMaterials == { [friction |-> Q(3, 10), restitution |-> Q(1, 2), density |-> One],
                      [friction |-> Q(3, 10), restitution |-> Zero, density |-> One] }

\* the options of the first body: at the origin
ResolveOptionsA ==
    { [shape |-> sh, velocity |-> v, mass |-> ms, material |-> mt, type |-> ty] :
      sh \in ResolveShapes, v \in ResolveVelocities, ms \in {N(1), N(2)},
      mt \in ResolveMaterials, ty \in {"dynamic", "static"} }
\* the options of the second body, some with the default material, some with
\* a mass that cancels the inverse mass of a first body of mass 1
ResolveOptionsB ==
    { [shape |-> sh, position |-> p, velocity |-> v, type |-> ty] :
      sh \in ResolveShapes, p \in {Vec(12, 0), Vec(-12, 0), Vec(0, 12)},
      v \in ResolveVelocities, ty \in {"dynamic", "static"} }
    \cup
    { [shape |-> sh, position |-> Vec(12, 0), velocity |-> v, material |-> mt] :
      sh \in ResolveShapes, v \in ResolveVelocities, mt \in ResolveMaterials }
    \cup
    { [shape |-> sh, position |-> Vec(12, 0), velocity |-> v, mass |-> N(-1)] :
      sh \in ResolveShapes, v \in ResolveVelocities }

InitResolve ==
    /\ World
    /\ \E a \in ResolveOptionsA, b \in ResolveOptionsB :
          probe = [stage |-> "bodies", A |-> PhysicsBody(a, 1), B |-> PhysicsBody(b, 2)]

\* resolveCollision on the manifold of the two bodies
Resolve ==
    /\ probe.stage = "checked"
    /\ probe.collision # null
    /\ LET c == probe.collision
           r == resolveCollision(Deref(c.bodyA), Deref(c.bodyB), c.normal, c.penetration)
       IN  probe' = [stage |-> "resolved", A |-> probe.A, B |-> probe.B,
                     filter |-> probe.filter, collision |-> c,
                     A2 |-> IF c.bodyA = "A" THEN r[1] ELSE r[2],
                     B2 |-> IF c.bodyA = "A" THEN r[2] ELSE r[1]]
    /\ UNCHANGED world

NextResolve == Check \/ Resolve

SpecResolve == InitResolve /\ [][NextResolve]_vars

(***************************************************************************)
(* detectCollisions on one candidate pair of tagged bodies                 *)
(***************************************************************************)
EventTags == {"player", "enemy", "bullet", "powerup", "boss"}

\* options with each of the tags as userData.type, and without userData
Tagged(options) ==
    {options} \cup
    { [f \in DOMAIN options \cup {"userData"} |->
          IF f = "userData" THEN t ELSE options[f]] : t \in EventTags }

EventOptionsA == Tagged([useGravity |-> FALSE])
EventOptionsB ==
    UNION { Tagged([position |-> p, type |-> ty]) :
            p \in {Vec(8, 0), Vec(100, 0)}, ty \in {"dynamic", "static"} }

InitEvents ==
    /\ World
    /\ \E a \in EventOptionsA, b \in EventOptionsB :
          probe = [stage |-> "bodies", A |-> PhysicsBody(a, 1), B |-> PhysicsBody(b, 2)]

\* detectCollisions when the broad phase gives the pair of the two bodies
Detect ==
    /\ probe.stage = "bodies"
    /\ probe' = [stage |-> "detected", A |-> probe.A, B |-> probe.B,
                 found |-> detectCollisions(<<probe.A, probe.B>>, <<<<1, 2>>>>)]
    /\ UNCHANGED world

NextEvents == Detect

SpecEvents == InitEvents /\ [][NextEvents]_vars

(***************************************************************************)
(* Entities that own a body (src/unnamed/part_002) and place it            *)
(***************************************************************************)
\* the options Entity.setPhysicsBody passes on: a wall and a crate
EntityOptions ==
    { [position |-> Vec(8, 0), shape |-> Rect(32, 32), type |-> "static"],
      [position |-> Vec(0, 0), shape |-> Rect(16, 16), useGravity |-> FALSE,
       linearDamping |-> Q(1, 2)] }
EntityPositions == {Vec(100, 0), Vec(8, 8)}

\* entity.setPosition(x, y) of the entity whose physicsBody is o; Entity.move
\* and Entity.updatePosition write the body's position in the same way, by
\* physicsBody.position.copy(this.position)
setPosition(o, x, y) ==
    /\ calls < MaxCalls
    /\ calls' = calls + 1
    /\ heap' = [heap EXCEPT ![o].position = <<x, y>>]
    /\ call' = [name |-> "setPosition", body |-> o, threw |-> FALSE]
    /\ emitted' = <<>>
    /\ UNCHANGED <<bodies, staticBodies, dynamicBodies, grid, collisionPairs, stats,
                   tick, removed, probe>>

NextEntity ==
    \/ \E options \in EntityOptions : createBody(options, FreshId)
    \/ \E o \in 1..Len(heap), p \in EntityPositions : setPosition(o, p[1], p[2])
    \/ \E deltaTime \in DeltaTimes : update(deltaTime)

SpecEntity == Init /\ [][NextEntity]_vars

(***************************************************************************)
(* The claims                                                              *)
(***************************************************************************)
\* the bodies the registry Map holds
Registered == {bodies[i].body : i \in 1..Len(bodies)}
\* the two bodies of a candidate pair, of a manifold, of a collision notification
PairOf(pr) == {pr[1], pr[2]}
BodiesOf(m) == {m.bodyA, m.bodyB}
Collisions == {emitted[i] : i \in {k \in 1..Len(emitted) : emitted[k].name # "physics_update"}}
Manifolds == {collisionPairs[i] : i \in 1..Len(collisionPairs)}
Candidates == {tick.pairs[i] : i \in 1..Len(tick.pairs)}

\* C1: in every update call the candidate pairs are those of a spatial hash
\* rebuilt from the bodies as they are after that call's integration step, and
\* two enabled non-static registered bodies that overlap after integration and
\* pass the filter have a manifold in that same call.
C1_PairsOfThisTick ==
    call.name = "update" =>
        /\ tick.pairs = getPotentialCollisions(
                            updateSpatialHash(tick.integrated, bodies), tick.integrated)
        /\ \A a \in Registered, b \in Registered :
              LET A == tick.integrated[a]
                  B == tick.integrated[b]
              IN  (/\ a # b /\ A.enabled /\ B.enabled
                   /\ A.type # "static" /\ B.type # "static"
                   /\ shouldCollide(A, B)
                   /\ checkCollision(A, B, a, b) # null)
                  => \E m \in Manifolds : BodiesOf(m) = {a, b}

\* C2: once removeBody has erased a body, no later update has it in a candidate
\* pair, in a manifold or in a collision notification, or moves it or changes
\* its velocity.
C2_RemovedBodyLeftAlone ==
    call.name = "update" =>
        \A o \in DOMAIN removed :
            /\ \A pr \in Candidates : o \notin PairOf(pr)
            /\ \A m \in Manifolds : o \notin BodiesOf(m)
            /\ \A e \in Collisions : o \notin BodiesOf(e)
            /\ heap[o].position = tick.start[o].position
            /\ heap[o].velocity = tick.start[o].velocity

\* C3: a body that removeBody erased is in neither set, and the Map holds its
\* id only for a body constructed after the removal.
C3_RemovedNotFound ==
    \A o \in DOMAIN removed :
        /\ o \notin staticBodies \cup dynamicBodies
        /\ \A i \in 1..Len(bodies) :
              bodies[i].id = heap[o].id => bodies[i].body > removed[o]

C3_Witness ==
    \E o \in DOMAIN removed :
        /\ call.name = "update"
        /\ ~has(bodies, heap[o].id)
        /\ Len(bodies) > 0

\* C4: removeBody of a body whose id the Map does not hold throws nothing and
\* leaves the Map, both sets and the statistics as they were.
C4_RemoveUnknownIsNoOp ==
    [][(/\ calls' = calls + 1
        /\ call'.name = "removeBody"
        /\ ~has(bodies, heap[call'.body].id))
       => (/\ call'.threw = FALSE
           /\ UNCHANGED <<bodies, staticBodies, dynamicBodies, stats>>)]_vars

C4_Witness ==
    /\ call.name = "removeBody"
    /\ call.registered = FALSE
    /\ call.body \in DOMAIN removed
    /\ Len(bodies) > 0

\* C5: createBody with a negative mass fails and registers nothing; with any
\* other of the options it succeeds.
C5_NegativeMassRejected ==
    call.name = "createBody" =>
        IF "mass" \in DOMAIN call.options /\ Less(call.options.mass, Zero)
        THEN /\ call.threw = TRUE
             /\ call.body \notin Registered \cup staticBodies \cup dynamicBodies
        ELSE /\ call.threw = FALSE
             /\ call.body \in Registered

\* C6: the inverse mass of a static body is 0 whatever its mass; that of a
\* dynamic or kinematic body is the number whose product with the mass is 1.
C6_InverseMass ==
    probe.stage # "none" =>
        \A b \in {probe.A, probe.B} :
            /\ b.type = "static" => getInverseMass(b) = Zero
            /\ b.type \in {"dynamic", "kinematic"} => Times(getInverseMass(b), b.mass) = One

C6_Witness ==
    /\ probe.stage = "corrected"
    /\ probe.A.type = "static" /\ probe.A.mass = N(5)
    /\ probe.B.type = "dynamic"

\* C7: no manifold and no collision notification is ever about two static bodies.
C7_NoStaticPair ==
    /\ \A m \in Manifolds :
          ~(heap[m.bodyA].type = "static" /\ heap[m.bodyB].type = "static")
    /\ \A e \in Collisions :
          ~(heap[e.bodyA].type = "static" /\ heap[e.bodyB].type = "static")

C7_Witness ==
    /\ call.name = "update"
    /\ \E pr \in Candidates :
          /\ heap[pr[1]].type = "static" /\ heap[pr[2]].type = "static"
          /\ shouldCollide(heap[pr[1]], heap[pr[2]])
          /\ rectRectCollision(heap[pr[1]], heap[pr[2]], pr[1], pr[2]) # null

\* some bit is set in both m and l, read as 32-bit patterns
CommonBit(m, l) ==
    \/ m < 0 /\ l < 0
    \/ \E i \in 0..30 : (m \div (2 ^ i)) % 2 = 1 /\ (l \div (2 ^ i)) % 2 = 1

\* C8: the filter admits a pair iff the mask of one has a bit in common with the
\* layer of the other, in either direction; it gives the same for (B, A); and it
\* admits layer 1, mask 2 with layer 2, mask 1.
C8_FilterRule ==
    probe.stage \in {"checked", "corrected"} =>
        LET A == probe.A
            B == probe.B
        IN  /\ probe.filter <=> (\/ CommonBit(A.collisionMask, B.collisionLayer)
                                 \/ CommonBit(B.collisionMask, A.collisionLayer))
            /\ probe.filter <=> shouldCollide(B, A)
            /\ (/\ A.collisionLayer = 1 /\ A.collisionMask = 2
                /\ B.collisionLayer = 2 /\ B.collisionMask = 1) => probe.filter

C8_Witness ==
    /\ probe.stage = "checked"
    /\ probe.A.collisionLayer = 1 /\ probe.A.collisionMask = 2
    /\ probe.B.collisionLayer = 2 /\ probe.B.collisionMask = 1
    /\ probe.filter

\* the square of the distance between the centres of the two probed bodies
CentreDistanceSquared ==
    LET dx == Minus(probe.B.position[1], probe.A.position[1])
        dy == Minus(probe.B.position[2], probe.A.position[2])
    IN  Plus(Times(dx, dx), Times(dy, dy))

\* C9: for two circles checkCollision gives a manifold iff the distance d of the
\* centres is less than the sum R of the radii, and then the penetration p is
\* R - d (R - p is not negative and its square is the squared distance); radius
\* 10 at (0,0) and radius 10 at (15,0) give penetration 5 and normal (1,0).
C9_CircleCircle ==
    (/\ probe.stage \in {"checked", "corrected"}
     /\ probe.A.shape.type = "circle" /\ probe.B.shape.type = "circle") =>
        LET R == Plus(probe.A.shape.radius, probe.B.shape.radius)
            c == probe.collision
        IN  /\ (c # null) <=> Less(CentreDistanceSquared, Times(R, R))
            /\ c # null =>
                  LET d == Minus(R, c.penetration)
                  IN  ~Less(d, Zero) /\ Times(d, d) = CentreDistanceSquared
            /\ (/\ probe.A.position = Vec(0, 0) /\ probe.A.shape.radius = N(10)
                /\ probe.B.position = Vec(15, 0) /\ probe.B.shape.radius = N(10))
               => c # null /\ c.penetration = N(5) /\ c.normal = Vec(1, 0)

C9_Witness ==
    /\ probe.stage = "checked"
    /\ probe.A.shape = Circle(10) /\ probe.A.position = Vec(0, 0)
    /\ probe.B.shape = Circle(10) /\ probe.B.position = Vec(15, 0)
    /\ probe.collision # null
    /\ probe.collision.penetration = N(5)

\* C10: when the two bodies of a manifold have a nonzero total inverse mass,
\* checking the pair again after resolvePosition gives no manifold or one of
\* strictly smaller penetration.
C10_CorrectionReducesPenetration ==
    (/\ probe.stage = "corrected"
     /\ Plus(getInverseMass(probe.A), getInverseMass(probe.B)) # Zero) =>
        LET again == checkCollision(probe.A2, probe.B2, "A", "B")
        IN  again = null \/ Less(again.penetration, probe.collision.penetration)

\* C11: the normal of every manifold the narrow phase returns points from the
\* manifold's bodyA toward its bodyB: its dot product with
\* bodyB.position - bodyA.position is not negative.
C11_NormalFromAToB ==
    (probe.stage = "checked" /\ probe.collision # null) =>
        LET c == probe.collision
            ab == VSubtract(Deref(c.bodyB).position, Deref(c.bodyA).position)
        IN  ~Less(VDot(c.normal, ab), Zero)

\* the two probed bodies lie on one axis and move along it toward each other
HeadOn ==
    \E k \in {1, 2} :
        LET o == 3 - k
            d == Minus(probe.B.position[k], probe.A.position[k])
        IN  /\ probe.A.position[o] = probe.B.position[o]
            /\ probe.A.velocity[o] = Zero /\ probe.B.velocity[o] = Zero
            /\ d # Zero
            /\ Less(Zero, Times(probe.A.velocity[k], d))
            /\ Less(Times(probe.B.velocity[k], d), Zero)

\* C12: when two dynamic bodies of equal mass that move head-on toward each
\* other along one axis have a manifold, then after resolveCollision the
\* velocity of bodyB relative to bodyA along the normal is -e times what it was,
\* e the smaller restitution, and the bodies no longer approach each other.
C12_HeadOnRestitution ==
    (/\ probe.stage = "resolved"
     /\ probe.A.type = "dynamic" /\ probe.B.type = "dynamic"
     /\ probe.A.mass = probe.B.mass
     /\ HeadOn) =>
        LET c == probe.collision
            first == Deref(c.bodyA)
            second == Deref(c.bodyB)
            first2 == IF c.bodyA = "A" THEN probe.A2 ELSE probe.B2
            second2 == IF c.bodyB = "A" THEN probe.A2 ELSE probe.B2
            e == MathMin(probe.A.material.restitution, probe.B.material.restitution)
            before == VDot(VSubtract(second.velocity, first.velocity), c.normal)
            after == VDot(VSubtract(second2.velocity, first2.velocity), c.normal)
        IN  /\ after = Times(Neg(e), before)
            /\ ~Less(VDot(VSubtract(probe.B2.velocity, probe.A2.velocity),
                          VSubtract(probe.B.position, probe.A.position)), Zero)

\* the cells of grid g that hold both a and b
SharedCells(g, a, b) == {i \in 1..Len(g) : InSeq(a, g[i].cell) /\ InSeq(b, g[i].cell)}

\* C13: the candidate pairs an update gets from getPotentialCollisions hold no
\* pair of a body with itself, hold each two distinct bodies that share a cell
\* of the grid exactly once, in one order or the other, and hold no two bodies
\* that share no cell.
C13_EachSharingPairOnce ==
    call.name = "update" =>
        /\ \A i \in 1..Len(tick.pairs) : tick.pairs[i][1] # tick.pairs[i][2]
        /\ \A a \in 1..Len(heap), b \in 1..Len(heap) :
              a < b =>
                 Cardinality({i \in 1..Len(tick.pairs) : PairOf(tick.pairs[i]) = {a, b}})
                    = IF SharedCells(tick.grid, a, b) # {} THEN 1 ELSE 0

C13_Witness ==
    /\ call.name = "update"
    /\ \E pr \in Candidates : Cardinality(SharedCells(tick.grid, pr[1], pr[2])) > 1
    /\ Len(tick.pairs) > 1

\* the bounding box lies within the square of the cell with key <<i, j>>
WithinCell(bounds, i, j) ==
    /\ ~Less(bounds.left, N(cellSize * i)) /\ ~Less(N(cellSize * (i + 1)), bounds.right)
    /\ ~Less(bounds.top, N(cellSize * j)) /\ ~Less(N(cellSize * (j + 1)), bounds.bottom)

\* the enabled bodies of the Map: those updateSpatialHash inserts
Inserted == {o \in Registered : heap[o].enabled}

\* C14: after an update has cleared the spatial hash and inserted the enabled
\* registered bodies, getPotentialCollisions holds every two of them whose
\* shapes overlap and whose bounding boxes lie within one and the same cell.
C14_OverlappingInOneCellArePaired ==
    call.name = "update" =>
        LET ps == getPotentialCollisions(grid, heap)
        IN  \A a \in Inserted, b \in Inserted :
               (/\ a # b
                /\ \E i \in -1..1, j \in -1..1 :
                      WithinCell(heap[a].bounds, i, j) /\ WithinCell(heap[b].bounds, i, j)
                /\ checkCollision(heap[a], heap[b], a, b) # null)
               => \E k \in 1..Len(ps) : PairOf(ps[k]) = {a, b}

C14_Witness ==
    /\ call.name = "update"
    /\ \E a \in Inserted, b \in Inserted :
          /\ a # b
          /\ heap[a].position # heap[b].position
          /\ WithinCell(heap[a].bounds, 0, 0) /\ WithinCell(heap[b].bounds, 0, 0)
          /\ checkCollision(heap[a], heap[b], a, b) # null
          /\ Len(grid) = 1
          /\ Len(getPotentialCollisions(grid, heap)) > 0

\* C15: a body that is disabled when update is called stays registered, is not
\* integrated, is in no candidate pair, manifold or collision notification of
\* that call, and has the position and velocity it had before the call.
C15_DisabledBodyLeftAlone ==
    call.name = "update" =>
        \A o \in 1..Len(tick.start) :
            (o \in Registered /\ ~tick.start[o].enabled) =>
                /\ tick.integrated[o] = tick.start[o]
                /\ \A pr \in Candidates : o \notin PairOf(pr)
                /\ \A m \in Manifolds : o \notin BodiesOf(m)
                /\ \A e \in Collisions : o \notin BodiesOf(e)
                /\ heap[o].position = tick.start[o].position
                /\ heap[o].velocity = tick.start[o].velocity

\* C16: no step changes the position or the velocity of a static body.
C16_StaticBodyFixed ==
    [][\A o \in 1..Len(heap) :
          heap[o].type = "static" =>
             /\ heap'[o].position = heap[o].position
             /\ heap'[o].velocity = heap[o].velocity]_vars

C16_Witness ==
    /\ call.name \in {"applyForce", "applyImpulse"}
    /\ heap[call.body].type = "static"
    /\ \E m \in Manifolds :
          /\ call.body \in BodiesOf(m)
          /\ \E o \in BodiesOf(m) : heap[o].type = "dynamic"

\* the hits of the last raycast that are on body o
HitsOn(o) == {i \in 1..Len(call.hits) : call.hits[i].body = o}

\* C17: raycast returns a sequence of hits in ascending order of distance, with
\* at most one hit for a body, every hit on a registered body, and no more hits
\* than the body count.
C17_HitsSortedOnePerBody ==
    call.name = "raycast" =>
        /\ \A i \in 1..Len(call.hits), j \in 1..Len(call.hits) :
              i < j => JsLessEq(call.hits[i].distance, call.hits[j].distance)
        /\ \A i \in 1..Len(call.hits) :
              /\ call.hits[i].body \in Registered
              /\ Cardinality(HitsOn(call.hits[i].body)) = 1
        /\ Len(call.hits) <= stats.bodyCount

C17_Witness ==
    /\ call.name = "raycast"
    /\ Len(call.hits) = 2
    /\ call.hits[1].body > call.hits[2].body
    /\ JsLess(call.hits[1].distance, call.hits[2].distance)
    /\ stats.bodyCount > 2

\* C18: for a ray of direction (1,0) and an enabled rect body on a layer of the
\* mask whose left edge is to the right of the origin by a gap g <= maxDistance:
\* when the origin's y is within [top, bottom] of the body's bounds, raycast
\* returns exactly one hit for the body, of distance g and normal (-1,0); when
\* it is outside, raycast returns no hit for the body.
C18_RayAlongX ==
    (call.name = "raycast" /\ call.direction = Vec(1, 0)) =>
        \A o \in Registered :
            LET b == heap[o]
                g == Minus(b.bounds.left, call.origin[1])
                y == call.origin[2]
            IN  (/\ b.enabled /\ b.shape.type = "rect"
                 /\ BitAndNonZero(b.collisionLayer, call.layerMask)
                 /\ Less(Zero, g) /\ ~Less(call.maxDistance, g)) =>
                    IF ~Less(y, b.bounds.top) /\ ~Less(b.bounds.bottom, y)
                    THEN /\ Cardinality(HitsOn(o)) = 1
                         /\ \A i \in HitsOn(o) :
                               call.hits[i].distance = g /\ call.hits[i].normal = Vec(-1, 0)
                    ELSE HitsOn(o) = {}

\* C19: after an update, collisionChecks is the number of candidate pairs of
\* that call and collisionsDetected the number of its manifolds, whatever the
\* counts of earlier calls were, and collisionsDetected <= collisionChecks.
C19_StatsOfThisTick ==
    call.name = "update" =>
        /\ stats.collisionChecks = Len(tick.pairs)
        /\ stats.collisionsDetected = Len(collisionPairs)
        /\ stats.collisionsDetected <= stats.collisionChecks

C19_Witness ==
    /\ call.name = "update"
    /\ tick.count = 3
    /\ Len(heap) = 2
    /\ stats.collisionChecks = 1
    /\ stats.collisionsDetected = 1

\* the category of two type tags, "" when the pair is none of the three
Category(ta, tb) ==
    IF {ta, tb} = {"player", "enemy"} THEN "collision_player_enemy"
    ELSE IF {ta, tb} = {"bullet", "enemy"} THEN "collision_bullet_enemy"
    ELSE IF {ta, tb} = {"player", "powerup"} THEN "collision_player_powerup"
    ELSE ""

\* C20: for each manifold of a detection, when the tags of both bodies form one
\* of the pairs player/enemy, bullet/enemy, player/powerup in either order,
\* exactly one notification is emitted, of that pair's category, with the two
\* bodies and the manifold; otherwise, and when a body has no userData, none
\* is emitted; and no notification is emitted without a manifold.
C20_OneCategorizedNotification ==
    probe.stage = "detected" =>
        LET ms == probe.found.collisionPairs
            es == probe.found.events
            h == <<probe.A, probe.B>>
        IN  /\ \A k \in 1..Len(ms) :
                  LET m == ms[k]
                      cat == Category(h[m.bodyA].userData, h[m.bodyB].userData)
                      about == {i \in 1..Len(es) : es[i].collision = m}
                  IN  /\ Cardinality(about) = IF cat = "" THEN 0 ELSE 1
                      /\ \A i \in about : /\ es[i].name = cat
                                          /\ es[i].bodyA = m.bodyA
                                          /\ es[i].bodyB = m.bodyB
            /\ \A i \in 1..Len(es) : \E k \in 1..Len(ms) : es[i].collision = ms[k]

C20_Witness ==
    /\ probe.stage = "detected"
    /\ probe.A.userData = "enemy" /\ probe.B.userData = "bullet"
    /\ Len(probe.found.collisionPairs) = 1
    /\ Len(probe.found.events) = 1
    /\ probe.found.events[1].name = "collision_bullet_enemy"

\* the bodies the world holds: through the Map or through one of the two sets
Held == Registered \cup staticBodies \cup dynamicBodies

\* C21: the body createBody returns has an id that no other body the world
\* holds has.
C21_FreshHandle ==
    call.name = "createBody" =>
        \A o \in Held \ {call.body} : heap[o].id # heap[call.body].id

\* C29: after createBody and removeBody calls the static and the dynamic set
\* are disjoint, together they are the bodies of the Map, static bodies in the
\* one and all others in the other, and bodyCount is the size of the Map and
\* not negative.
C29_SetsPartitionTheMap ==
    call.name \in {"createBody", "removeBody"} =>
        /\ staticBodies \cap dynamicBodies = {}
        /\ staticBodies \cup dynamicBodies = Registered
        /\ \A o \in staticBodies : heap[o].type = "static"
        /\ \A o \in dynamicBodies : heap[o].type # "static"
        /\ stats.bodyCount = Len(bodies)
        /\ stats.bodyCount >= 0

\* the bodies of an update call after its first j manifolds have been resolved
ResolvedUpTo(j) == resolveCollisions(tick.integrated, SubSeq(collisionPairs, 1, j))
\* the places of a notification's manifold among the manifolds of the call
PlacesOf(e) == {k \in 1..Len(collisionPairs) : collisionPairs[k] = e.collision}

\* C22: the notification of a manifold is emitted after that manifold has been
\* resolved: the positions and velocities its listener sees are those of the
\* bodies after the resolution of the manifolds up to that one, or of later
\* ones of the same call.
C22_NotifiedAfterResolution ==
    call.name = "update" =>
        \A e \in Collisions : \A k \in PlacesOf(e) :
            \E j \in k..Len(collisionPairs) :
                /\ e.seenA.position = ResolvedUpTo(j)[e.bodyA].position
                /\ e.seenA.velocity = ResolvedUpTo(j)[e.bodyA].velocity
                /\ e.seenB.position = ResolvedUpTo(j)[e.bodyB].position
                /\ e.seenB.velocity = ResolvedUpTo(j)[e.bodyB].velocity

\* the body a manifold's reference stands for, after the probe's resolution step
DerefAfter(r) == IF r = "A" THEN probe.A2 ELSE probe.B2

\* C23: positional correction with nonzero total inverse mass displaces each
\* body along the normal by penetration / total inverse mass * 0.8 times its
\* own inverse mass, bodyA against the normal and bodyB with it, whatever the
\* type of the body, and the two displacements together are 80% of the
\* penetration along the normal.
C23_EachBodyDisplacedByItsShare ==
    (/\ probe.stage = "corrected"
     /\ Plus(getInverseMass(probe.A), getInverseMass(probe.B)) # Zero) =>
        LET c == probe.collision
            a == Deref(c.bodyA)
            b == Deref(c.bodyB)
            totalInvMass == Plus(getInverseMass(a), getInverseMass(b))
            correction == VMultiply(c.normal,
                              Times(Over(c.penetration, totalInvMass), Q(8, 10)))
            movedA == VSubtract(DerefAfter(c.bodyA).position, a.position)
            movedB == VSubtract(DerefAfter(c.bodyB).position, b.position)
        IN  /\ movedA = VMultiply(correction, Neg(getInverseMass(a)))
            /\ movedB = VMultiply(correction, getInverseMass(b))
            /\ VDot(VSubtract(movedB, movedA), c.normal) = Times(c.penetration, Q(8, 10))

\* every coordinate of a vector is a number
Finite(v) == v[1][2] > 0 /\ v[2][2] > 0

\* C24: when the total inverse mass of the two bodies of a manifold is zero,
\* resolution leaves the position and the velocity of both bodies as they
\* are, and they are numbers.
C24_ZeroTotalInverseMassSkipped ==
    (/\ probe.stage = "resolved"
     /\ Plus(getInverseMass(probe.A), getInverseMass(probe.B)) = Zero) =>
        /\ probe.A2.position = probe.A.position
        /\ probe.A2.velocity = probe.A.velocity
        /\ probe.B2.position = probe.B.position
        /\ probe.B2.velocity = probe.B.velocity
        /\ \A v \in {probe.A2.position, probe.A2.velocity,
                     probe.B2.position, probe.B2.velocity} : Finite(v)
\* two dynamic bodies whose inverse masses cancel, approaching along the normal
C24_Witness ==
    /\ probe.stage = "resolved"
    /\ probe.A.type = "dynamic" /\ probe.B.type = "dynamic"
    /\ getInverseMass(probe.A) # Zero
    /\ Plus(getInverseMass(probe.A), getInverseMass(probe.B)) = Zero
    /\ Less(Zero, probe.collision.penetration)
    /\ LET c == probe.collision
       IN  Less(VDot(VSubtract(Deref(c.bodyB).velocity, Deref(c.bodyA).velocity),
                     c.normal), Zero)
    /\ probe.A2 = probe.A /\ probe.B2 = probe.B

\* the two probed bodies move apart along the line that joins their centres
MovingApart ==
    Less(Zero, VDot(VSubtract(probe.B.velocity, probe.A.velocity),
                    VSubtract(probe.B.position, probe.A.position)))

\* C25: when the two bodies of a manifold move apart along the line joining
\* their centres, resolution leaves both velocities as they are.
C25_SeparatingBodiesKeepVelocity ==
    (probe.stage = "resolved" /\ MovingApart) =>
        /\ probe.A2.velocity = probe.A.velocity
        /\ probe.B2.velocity = probe.B.velocity

\* the momentum of a body: its mass times its velocity
Momentum(b) == VMultiply(b.velocity, b.mass)

\* C30: for a manifold of two dynamic bodies, velocity resolution with its
\* friction keeps the total momentum massA * velA + massB * velB.
C30_MomentumConserved ==
    (/\ probe.stage = "resolved"
     /\ probe.A.type = "dynamic" /\ probe.B.type = "dynamic") =>
        VAdd(Momentum(probe.A2), Momentum(probe.B2))
            = VAdd(Momentum(probe.A), Momentum(probe.B))
\* bodies of different mass that get a normal impulse and a friction impulse
C30_Witness ==
    /\ probe.stage = "resolved"
    /\ probe.A.type = "dynamic" /\ probe.B.type = "dynamic"
    /\ probe.A.mass = N(2) /\ probe.B.mass = N(1)
    /\ LET c == probe.collision
           before == VSubtract(probe.B.velocity, probe.A.velocity)
           after == VSubtract(probe.B2.velocity, probe.A2.velocity)
           tangent == <<Neg(c.normal[2]), c.normal[1]>>
       IN  /\ VDot(before, c.normal) # VDot(after, c.normal)
           /\ VDot(before, tangent) # VDot(after, tangent)

\* the cached bounds of a body are the box of its position and shape
BoundsCurrent(b) == b.bounds = BoundsOf(b.shape, b.position)

\* C26: the bodies an update gives to the narrow phase, and the bodies it
\* inserts into the spatial hash, have cached bounds equal to the box of their
\* position and shape at that moment, also after an entity has placed them.
C26_BoundsFollowPosition ==
    call.name = "update" =>
        /\ \A pr \in Candidates : \A o \in PairOf(pr) : BoundsCurrent(tick.integrated[o])
        /\ \A o \in Inserted : BoundsCurrent(heap[o])

\* C27: the normal of every manifold the narrow phase returns has length one
\* and its penetration is not negative.
C27_UnitNormal ==
    (probe.stage = "checked" /\ probe.collision # null) =>
        /\ VDot(probe.collision.normal, probe.collision.normal) = One
        /\ ~Less(probe.collision.penetration, Zero)

\* C28: the hits raycast returns are on registered, enabled, rect-shaped bodies
\* whose collisionLayer shares a bit with layerMask; it does not throw, also
\* with circle bodies in the world; and it leaves the Map, the two sets, every
\* body, the spatial hash, the manifolds and the stats as they are.
C28_RaycastFiltersAndReadsOnly ==
    [][call'.name = "raycast" =>
          /\ ~call'.threw
          /\ \A k \in 1..Len(call'.hits) :
                LET o == call'.hits[k].body
                IN  /\ \E i \in 1..Len(bodies) : bodies[i].body = o
                    /\ heap[o].enabled
                    /\ heap[o].shape.type = "rect"
                    /\ BitAndNonZero(heap[o].collisionLayer, call'.layerMask)
          /\ UNCHANGED <<heap, bodies, staticBodies, dynamicBodies, grid,
                         collisionPairs, stats>>]_vars
\* a ray that reports one box and passes through a registered circle and
\* through a box that has been removed
C28_Witness ==
    /\ call.name = "raycast"
    /\ Len(call.hits) = 1
    /\ \E o \in Registered :
          /\ heap[o].shape.type = "circle" /\ heap[o].enabled
          /\ BitAndNonZero(heap[o].collisionLayer, call.layerMask)
    /\ \E o \in (1..Len(heap)) \ Registered :
          raycastBody(call.origin, call.direction, call.maxDistance, heap[o], o) # null

=============================================================================
